---- MODULE Spec2Model ----
(***************************************************************************)
(* sidica: a memcached-style cache server.                                 *)
(*                                                                         *)
(* Spec      : tasks running Cache::get and Cache::set concurrently on one *)
(*             shared Cache (index under a parking_lot RwLock, records in  *)
(*             a DashMap, identifiers from Generator::gen) while the wall  *)
(*             clock advances.                                             *)
(* SpecApply : tasks applying Get and Set commands to the shared Cache and *)
(*             writing their responses to their connections.               *)
(* SpecFrame : RequestFrame::check and RequestFrame::parse applied to      *)
(*             bounded byte buffers.                                       *)
(* SpecConn  : Connection::read_frame on a stream that arrives in pieces.  *)
(* SpecParse : Command::from_frame and the Parse tokenizer on bounded      *)
(*             command lines.                                              *)
(* SpecCalls : a finite set of Cache::get and Cache::set calls; with a    *)
(*             fair scheduler, SpecCallsFair.                              *)
(* SpecGenSeq: sequential Generator::gen calls while the clock advances.   *)
(* SpecGen   : concurrent Generator::gen calls while the clock advances.   *)
(***************************************************************************)
EXTENDS Integers, Sequences, FiniteSets, TLC

\* ------------------------------------------------------------------ bounds
\* number of concurrent tasks (one per connection, main.rs:36)
NumTasks == 2
\* total number of Cache::set calls in a behaviour
MaxSets == 3
\* number of wall-clock second boundaries crossed in a behaviour
MaxTicks == 1
\* largest number of keys in one Get command
MaxKeys == 2
\* longest enumerated read buffer
MaxBuf == 6
\* longest enumerated command line
MaxLine == 4
\* number of Parse::next calls made on one Parse
MaxNext == 4
\* number of Cache calls each task makes when the set of calls is finite
MaxCalls == 2
\* number of direct gen() calls in a behaviour
MaxGens == 7

Tasks == 1..NumTasks

\* ------------------------------------------------------------------ inputs
Keys == {"a", "b"}

\* Option<T> is a sequence of length <= 1
None == <<>>
Some(x) == <<x>>

\* the (flags, expiration, data) arguments of Cache::set
SetArgs ==
  { [flags |-> 7, expiration |-> None,     data |-> <<"v", "1">>],
    [flags |-> 0, expiration |-> Some(30), data |-> <<"v", "2", "x">>] }

\* the key lists of a Get command: Get::new accepts any Vec<String>
RECURSIVE SeqsUpTo(_, _)
SeqsUpTo(S, n) ==
  IF n = 0 THEN {<<>>}
  ELSE LET shorter == SeqsUpTo(S, n - 1)
       IN  shorter \cup {Append(s, x) : s \in {q \in shorter : Len(q) = n - 1}, x \in S}

KeyLists == SeqsUpTo(Keys, MaxKeys)

VARIABLES
  clock,        \* SystemTime::now() in seconds
  ts, count,    \* Generator.ts, Generator.count
  index,        \* Cache.index: BTreeMap<String, u64>
  cache,        \* Cache.cache: DashMap<u64, MemoryItem>
  readers,      \* tasks holding the index lock in shared mode
  upgr,         \* the task holding the upgradable read lock, as an Option
  writer,       \* the task holding the lock exclusively (upgraded), as an Option
  pc,           \* each task's position
  loc,          \* each task's local variables
  out,          \* what each task wrote to its connection for the current command
  hist,         \* per key, the arguments of the sets in the order their record was stored
  setsStarted,  \* per key, number of Cache::set calls made
  setsDone,     \* per key, number of Cache::set calls that returned
  calls,        \* per task, number of calls made out of the task's fixed list of calls
  buf,          \* the bytes a cursor ranges over (frame codec)
  pos,          \* the cursor's position
  fres,         \* the result of the last frame codec call
  stream,       \* the bytes the peer has sent that the socket has not delivered yet
  frames,       \* the frames read_frame has returned, in order
  rpc,          \* the position of the connection's reader in read_frame
  rres,         \* the result of the last read_frame call that returned
  pin,          \* the RequestFrame handed to Command::from_frame
  pline,        \* Parse.0: the bytes of the command line
  ppos,         \* Parse.0: the cursor's position in the line
  ppc,          \* the position of the command parser
  ptoks,        \* the tokens Parse::next has returned, in order
  pres,         \* the result of the command parser
  ids           \* the direct gen() calls, in the order of their step on the counter

cacheVars == <<clock, ts, count, index, cache, readers, upgr, writer, pc, loc, out,
               hist, setsStarted, setsDone, calls>>
frameVars == <<buf, pos, fres>>
connVars == <<stream, frames, rpc, rres>>
parseVars == <<pin, pline, ppos, ppc, ptoks, pres>>
genVars == <<ids>>
vars == <<cacheVars, frameVars, connVars, parseVars, genVars>>

\* ------------------------------------------------------------------ helpers
NoArgs == [flags |-> 0, expiration |-> None, data |-> <<>>]

Loc0 ==
  [ cmd |-> "none", key |-> "", args |-> NoArgs, id |-> <<0, 0>>, cas |-> 0,
    now |-> 0, last |-> 0, keys |-> <<>>, i |-> 0, item |-> None,
    hits |-> <<>>, setBefore |-> FALSE ]

\* the sum of a function's values over the keys in S
RECURSIVE SumOver(_, _)
SumOver(f, S) ==
  IF S = {} THEN 0
  ELSE LET k == CHOOSE x \in S : TRUE IN f[k] + SumOver(f, S \ {k})

\* BTreeMap::insert / DashMap::insert: add or overwrite one entry
MapInsert(m, k, v) == [x \in (DOMAIN m) \cup {k} |-> IF x = k THEN v ELSE m[x]]

\* the bytes of a u32, least significant first
to_le_bytes(x) ==
  <<x % 256, (x \div 256) % 256, (x \div 65536) % 256, x \div 16777216>>

\* u32::to_be_bytes: the four bytes of a u32, most significant first
\*                                                       id_generator.rs:31-32
to_be_bytes(x) ==
  <<x \div 16777216, (x \div 65536) % 256, (x \div 256) % 256, x % 256>>

\* u64::from_be_bytes of eight bytes.  A u64 is kept as its two 32-bit halves
\* <<high, low>>: u64 equality is equality of the pairs, and u64 order is
\* their lexicographic order.                               id_generator.rs:34
from_be_bytes(id) ==
  <<((id[1] * 256 + id[2]) * 256 + id[3]) * 256 + id[4],
    ((id[5] * 256 + id[6]) * 256 + id[7]) * 256 + id[8]>>

\* combine with the count in the high bytes and the timestamp in the low ones
combineSwapped(timestamp, cnt) ==
  from_be_bytes(to_be_bytes(cnt) \o to_be_bytes(timestamp))

\* Generator::combine: the u64 whose big-endian bytes are the timestamp's four
\* bytes followed by the count's four bytes.             id_generator.rs:29-35
combine(timestamp, cnt) ==
  from_be_bytes(to_be_bytes(timestamp) \o to_be_bytes(cnt))

\* Generator::current_ts: seconds since the epoch as u32.  The clock and the
\* counters of a bounded behaviour stay far below 2^32, so no u32 wraps.
current_ts == clock

\* ------------------------------------------------------------------ Init
CacheInit ==
  /\ clock = 1
  /\ ts = 1
  /\ count = 0
  /\ index = <<>>
  /\ cache = <<>>
  /\ readers = {}
  /\ upgr = None
  /\ writer = None
  /\ pc = [t \in Tasks |-> "idle"]
  /\ loc = [t \in Tasks |-> Loc0]
  /\ out = [t \in Tasks |-> <<>>]
  /\ hist = [k \in Keys |-> <<>>]
  /\ setsStarted = [k \in Keys |-> 0]
  /\ setsDone = [k \in Keys |-> 0]
  /\ calls = [t \in Tasks |-> 0]

\* no frame                                                     frame.rs:33-37
NoFrame == [kind |-> "none", command_line |-> <<>>, data |-> <<>>]

\* the frame codec has not been called
NoResult == [op |-> "none", ok |-> FALSE, frame |-> NoFrame]

\* Connection::new: an empty read buffer               connection.rs:23-28
FrameIdle ==
  /\ buf = <<>>
  /\ pos = 0
  /\ fres = NoResult

\* read_frame has not returned yet
NoRead == [kind |-> "none"]

\* a connection nobody reads from                        connection.rs:23-28
ConnIdle ==
  /\ stream = <<>>
  /\ frames = <<>>
  /\ rpc = "idle"
  /\ rres = NoRead

\* the command parser has not returned yet
NoCommand == [kind |-> "none"]

\* no frame is being turned into a command
ParseIdle ==
  /\ pin = NoFrame
  /\ pline = <<>>
  /\ ppos = 0
  /\ ppc = "idle"
  /\ ptoks = <<>>
  /\ pres = NoCommand

\* no gen() call has returned
GenIdle == ids = <<>>

Init == CacheInit /\ FrameIdle /\ ConnIdle /\ ParseIdle /\ GenIdle

\* the wall clock crosses a second boundary
Tick ==
  /\ clock < 1 + MaxTicks
  /\ clock' = clock + 1
  /\ UNCHANGED <<ts, count, index, cache, readers, upgr, writer, pc, loc, out,
                 hist, setsStarted, setsDone, calls, frameVars, connVars, parseVars, genVars>>

\* ------------------------------------------------------------------ Cache::set
\* a task calls Cache::set(key, flags, expiration, data)           cache.rs:77
SetCall(t, k, a) ==
  /\ pc[t] = "idle"
  /\ SumOver(setsStarted, Keys) < MaxSets
  /\ pc' = [pc EXCEPT ![t] = "set_lock"]
  /\ loc' = [loc EXCEPT ![t] = [Loc0 EXCEPT !.key = k, !.args = a]]
  /\ setsStarted' = [setsStarted EXCEPT ![k] = @ + 1]
  /\ UNCHANGED <<clock, ts, count, index, cache, readers, upgr, writer, out,
                 hist, setsDone, calls, frameVars, connVars, parseVars, genVars>>

\* self.index.upgradable_read(): shared with readers, exclusive among
\* upgradable readers and writers                                   cache.rs:78
SetLock(t) ==
  /\ pc[t] = "set_lock"
  /\ upgr = None
  /\ writer = None
  /\ upgr' = Some(t)
  /\ pc' = [pc EXCEPT ![t] = "set_lookup"]
  /\ UNCHANGED <<clock, ts, count, index, cache, readers, writer, loc, out,
                 hist, setsStarted, setsDone, calls, frameVars, connVars, parseVars, genVars>>

\* match index.get(&key)                                            cache.rs:79
SetLookup(t) ==
  /\ pc[t] = "set_lookup"
  /\ IF loc[t].key \in DOMAIN index
       THEN /\ loc' = [loc EXCEPT ![t].id = index[loc[t].key]]
            /\ pc' = [pc EXCEPT ![t] = "set_getcas"]
       ELSE /\ loc' = loc
            /\ pc' = [pc EXCEPT ![t] = "gen_now"]
  /\ UNCHANGED <<clock, ts, count, index, cache, readers, upgr, writer, out,
                 hist, setsStarted, setsDone, calls, frameVars, connVars, parseVars, genVars>>

\* let cas = self.cache.get_mut(id).unwrap().cas                    cache.rs:84
SetGetCas(t) ==
  /\ pc[t] = "set_getcas"
  /\ IF loc[t].id \in DOMAIN cache
       THEN /\ loc' = [loc EXCEPT ![t].cas = cache[loc[t].id].cas]
            /\ pc' = [pc EXCEPT ![t] = "set_put"]
            /\ upgr' = upgr
       ELSE \* unwrap on None panics; unwinding drops the lock guard
            /\ loc' = loc
            /\ pc' = [pc EXCEPT ![t] = "panic"]
            /\ upgr' = None
  /\ UNCHANGED <<clock, ts, count, index, cache, readers, writer, out,
                 hist, setsStarted, setsDone, calls, frameVars, connVars, parseVars, genVars>>

\* the replacement record of an update: cas = old cas + 1       cache.rs:85-86
UpdatedItem(a, cas) ==
  [flags |-> a.flags, expiration |-> a.expiration, cas |-> cas + 1,
   data |-> a.data]

\* the record of a new key: cas 0                                   cache.rs:95
NewItem(a) ==
  [flags |-> a.flags, expiration |-> a.expiration, cas |-> 0, data |-> a.data]

\* self.cache.insert(*id, mi)                                       cache.rs:88
SetPut(t) ==
  /\ pc[t] = "set_put"
  /\ cache' = MapInsert(cache, loc[t].id, UpdatedItem(loc[t].args, loc[t].cas))
  /\ hist' = [hist EXCEPT ![loc[t].key] = Append(@, loc[t].args)]
  /\ pc' = [pc EXCEPT ![t] = "set_ret"]
  /\ UNCHANGED <<clock, ts, count, index, readers, upgr, writer, loc, out,
                 setsStarted, setsDone, calls, frameVars, connVars, parseVars, genVars>>

\* ------------------------------------------------------------------ Generator::gen
\* what ids keeps of a gen() call: the second it read, the second it found
\* stored, the count it used and the identifier it returns
GenEntry(now, last, cnt, id) == [now |-> now, last |-> last, cnt |-> cnt, id |-> id]

\* the gen() calls made so far: those in ids and those still running
GenCalls == Len(ids) + Cardinality({t \in Tasks : loc[t].cmd = "gen" /\ pc[t] # "gen_ret"})

\* a task calls gen() on the shared generator             id_generator.rs:37
GenCall(t) ==
  /\ pc[t] = "idle"
  /\ GenCalls < MaxGens
  /\ pc' = [pc EXCEPT ![t] = "gen_now"]
  /\ loc' = [loc EXCEPT ![t] = [Loc0 EXCEPT !.cmd = "gen"]]
  /\ UNCHANGED <<clock, ts, count, index, cache, readers, upgr, writer, out,
                 hist, setsStarted, setsDone, calls, frameVars, connVars, parseVars, genVars>>

\* a gen() call made when no other call is running
GenCallSeq(t) ==
  /\ \A u \in Tasks : pc[u] = "idle"
  /\ GenCall(t)

\* let now = Self::current_ts()                              id_generator.rs:38
GenNow(t) ==
  /\ pc[t] = "gen_now"
  /\ loc' = [loc EXCEPT ![t].now = current_ts]
  /\ pc' = [pc EXCEPT ![t] = "gen_swap"]
  /\ UNCHANGED <<clock, ts, count, index, cache, readers, upgr, writer, out,
                 hist, setsStarted, setsDone, calls, frameVars, connVars, parseVars, genVars>>

\* let last_ts = self.ts.swap(now, SeqCst)                   id_generator.rs:39
GenSwap(t) ==
  /\ pc[t] = "gen_swap"
  /\ loc' = [loc EXCEPT ![t].last = ts]
  /\ ts' = loc[t].now
  /\ pc' = [pc EXCEPT ![t] = "gen_count"]
  /\ UNCHANGED <<clock, count, index, cache, readers, upgr, writer, out,
                 hist, setsStarted, setsDone, calls, frameVars, connVars, parseVars, genVars>>

\* GenCount with a fetch_add that adds nothing
GenCountNoIncrement(t) ==
  /\ pc[t] = "gen_count"
  /\ LET cnt == IF loc[t].now = loc[t].last THEN count ELSE 0
     IN  /\ count' = cnt
         /\ loc' = [loc EXCEPT ![t].id = combine(loc[t].now, cnt)]
         /\ ids' = IF loc[t].cmd = "gen"
                     THEN Append(ids, GenEntry(loc[t].now, loc[t].last, cnt,
                                               combine(loc[t].now, cnt)))
                     ELSE ids
  /\ pc' = [pc EXCEPT ![t] = IF loc[t].cmd = "gen" THEN "gen_ret" ELSE "set_upgrade"]
  /\ UNCHANGED <<clock, ts, index, cache, readers, upgr, writer, out,
                 hist, setsStarted, setsDone, calls, frameVars, connVars, parseVars>>

\* fetch_add(1) in the same second, store(0) in a new one, then combine.
\* Cache::set goes on with the identifier; a direct call returns it, and
\* ids keeps it.                                        id_generator.rs:41-50
GenCount(t) ==
  /\ pc[t] = "gen_count"
  /\ LET cnt == IF loc[t].now = loc[t].last THEN count ELSE 0
     IN  /\ count' = IF loc[t].now = loc[t].last THEN count + 1 ELSE 0
         /\ loc' = [loc EXCEPT ![t].id = combine(loc[t].now, cnt)]
         /\ ids' = IF loc[t].cmd = "gen"
                     THEN Append(ids, GenEntry(loc[t].now, loc[t].last, cnt,
                                               combine(loc[t].now, cnt)))
                     ELSE ids
  /\ pc' = [pc EXCEPT ![t] = IF loc[t].cmd = "gen" THEN "gen_ret" ELSE "set_upgrade"]
  /\ UNCHANGED <<clock, ts, index, cache, readers, upgr, writer, out,
                 hist, setsStarted, setsDone, calls, frameVars, connVars, parseVars>>

\* a direct gen() call returns its identifier            id_generator.rs:50
GenRet(t) ==
  /\ pc[t] = "gen_ret"
  /\ pc' = [pc EXCEPT ![t] = "idle"]
  /\ loc' = [loc EXCEPT ![t] = Loc0]
  /\ UNCHANGED <<clock, ts, count, index, cache, readers, upgr, writer, out,
                 hist, setsStarted, setsDone, calls, frameVars, connVars, parseVars, genVars>>

\* index.with_upgraded(..): the upgrade waits until no reader is left
\*                                                                  cache.rs:94
SetUpgrade(t) ==
  /\ pc[t] = "set_upgrade"
  /\ readers = {}
  /\ writer' = Some(t)
  /\ pc' = [pc EXCEPT ![t] = "set_index"]
  /\ UNCHANGED <<clock, ts, count, index, cache, readers, upgr, loc, out,
                 hist, setsStarted, setsDone, calls, frameVars, connVars, parseVars, genVars>>

\* SetIndexInsert with the insertion lost: the key never reaches the index
SetIndexInsertLost(t) ==
  /\ pc[t] = "set_index"
  /\ index' = index
  /\ writer' = None
  /\ pc' = [pc EXCEPT ![t] = "set_rec"]
  /\ UNCHANGED <<clock, ts, count, cache, readers, upgr, loc, out,
                 hist, setsStarted, setsDone, calls, frameVars, connVars, parseVars, genVars>>

\* |index| index.insert(key, new_id), then the downgrade back to the
\* upgradable read lock                                             cache.rs:94
SetIndexInsert(t) ==
  /\ pc[t] = "set_index"
  /\ index' = MapInsert(index, loc[t].key, loc[t].id)
  /\ writer' = None
  /\ pc' = [pc EXCEPT ![t] = "set_rec"]
  /\ UNCHANGED <<clock, ts, count, cache, readers, upgr, loc, out,
                 hist, setsStarted, setsDone, calls, frameVars, connVars, parseVars, genVars>>

\* self.cache.insert(new_id, MemoryItem { .., cas: 0, .. })         cache.rs:95
SetRec(t) ==
  /\ pc[t] = "set_rec"
  /\ cache' = MapInsert(cache, loc[t].id, NewItem(loc[t].args))
  /\ hist' = [hist EXCEPT ![loc[t].key] = Append(@, loc[t].args)]
  /\ pc' = [pc EXCEPT ![t] = "set_ret"]
  /\ UNCHANGED <<clock, ts, count, index, readers, upgr, writer, loc, out,
                 setsStarted, setsDone, calls, frameVars, connVars, parseVars, genVars>>

\* Cache::set returns; the upgradable guard is dropped          cache.rs:89-99
SetRet(t) ==
  /\ pc[t] = "set_ret"
  /\ upgr' = None
  /\ setsDone' = [setsDone EXCEPT ![loc[t].key] = @ + 1]
  /\ pc' = [pc EXCEPT ![t] = "idle"]
  /\ loc' = [loc EXCEPT ![t] = Loc0]
  /\ UNCHANGED <<clock, ts, count, index, cache, readers, writer, out,
                 hist, setsStarted, calls, frameVars, connVars, parseVars, genVars>>

\* ------------------------------------------------------------------ Cache::get
\* a task calls Cache::get(key)                                     cache.rs:60
GetCall(t, k) ==
  /\ pc[t] = "idle"
  /\ pc' = [pc EXCEPT ![t] = "get_lock"]
  /\ loc' = [loc EXCEPT ![t] = [Loc0 EXCEPT !.key = k, !.setBefore = (setsDone[k] > 0)]]
  /\ UNCHANGED <<clock, ts, count, index, cache, readers, upgr, writer, out,
                 hist, setsStarted, setsDone, calls, frameVars, connVars, parseVars, genVars>>

\* self.index.read(): shared, also with an upgradable reader        cache.rs:61
GetLock(t) ==
  /\ pc[t] = "get_lock"
  /\ writer = None
  /\ readers' = readers \cup {t}
  /\ pc' = [pc EXCEPT ![t] = "get_lookup"]
  /\ UNCHANGED <<clock, ts, count, index, cache, upgr, writer, loc, out,
                 hist, setsStarted, setsDone, calls, frameVars, connVars, parseVars, genVars>>

\* match index.get(key)                                          cache.rs:62,73
GetLookup(t) ==
  /\ pc[t] = "get_lookup"
  /\ IF loc[t].key \in DOMAIN index
       THEN /\ loc' = [loc EXCEPT ![t].id = index[loc[t].key]]
            /\ pc' = [pc EXCEPT ![t] = "get_rec"]
       ELSE /\ loc' = [loc EXCEPT ![t].item = None]
            /\ pc' = [pc EXCEPT ![t] = "get_ret"]
  /\ UNCHANGED <<clock, ts, count, index, cache, readers, upgr, writer, out,
                 hist, setsStarted, setsDone, calls, frameVars, connVars, parseVars, genVars>>

\* the Item built from the stored record and the caller's key    cache.rs:65-71
ItemOf(k, rec) ==
  [key |-> k, flags |-> rec.flags, cas |-> rec.cas,
   expiration |-> rec.expiration, data |-> rec.data]

\* self.cache.get(id).unwrap().clone()                              cache.rs:64
GetRec(t) ==
  /\ pc[t] = "get_rec"
  /\ IF loc[t].id \in DOMAIN cache
       THEN /\ loc' = [loc EXCEPT ![t].item = Some(ItemOf(loc[t].key, cache[loc[t].id]))]
            /\ pc' = [pc EXCEPT ![t] = "get_ret"]
            /\ readers' = readers
       ELSE \* unwrap on None panics; unwinding drops the read guard
            /\ loc' = loc
            /\ pc' = [pc EXCEPT ![t] = "panic"]
            /\ readers' = readers \ {t}
  /\ UNCHANGED <<clock, ts, count, index, cache, upgr, writer, out,
                 hist, setsStarted, setsDone, calls, frameVars, connVars, parseVars, genVars>>

\* Cache::get returns its Option<Item>; the read guard is dropped.  A direct
\* call is over; a call made by Get::apply continues there, and hits keeps
\* the items its calls returned.                                 cache.rs:72-75
GetRet(t) ==
  /\ pc[t] = "get_ret"
  /\ readers' = readers \ {t}
  /\ IF loc[t].cmd = "get"
       THEN /\ pc' = [pc EXCEPT ![t] = IF Len(loc[t].keys) = 1 THEN "apply_single"
                                                              ELSE "apply_multi"]
            /\ loc' = [loc EXCEPT ![t].hits = @ \o loc[t].item]
       ELSE /\ pc' = [pc EXCEPT ![t] = "idle"]
            /\ loc' = [loc EXCEPT ![t] = Loc0]
  /\ UNCHANGED <<clock, ts, count, index, cache, upgr, writer, out,
                 hist, setsStarted, setsDone, calls, frameVars, connVars, parseVars, genVars>>

\* ------------------------------------------------------------------ Connection (write side)
\* ResponseFrame::Value as Get::apply builds it (cas: None)   get.rs:66-72,81-87
ValueFrame(k, item) ==
  [kind |-> "VALUE", key |-> k, flags |-> item.flags,
   data_length |-> Len(item.data), cas |-> None, data |-> item.data]

Stored == [kind |-> "STORED"]

\* the line b"END\r\n"                                    connection.rs:185,197
EndLine == [kind |-> "END"]

\* Connection::write_value: the frame's line(s) go to the stream
\*                                                       connection.rs:129-175
write_value(o, frame) == Append(o, frame)

\* Connection::write_and_flush                           connection.rs:177-181
write_and_flush(o, frame) == write_value(o, frame)

\* Connection::write_and_end                             connection.rs:183-188
write_and_end(o, frame) == Append(write_value(o, frame), EndLine)

\* Connection::end_and_flush                             connection.rs:195-200
end_and_flush(o) == Append(o, EndLine)

\* ------------------------------------------------------------------ Get::apply
\* a task applies Command::Get(keys)                               get.rs:60
GetApplyCall(t, ks) ==
  /\ pc[t] = "idle"
  /\ pc' = [pc EXCEPT ![t] = "apply_loop"]
  /\ loc' = [loc EXCEPT ![t] = [Loc0 EXCEPT !.cmd = "get", !.keys = ks, !.i = 1]]
  /\ out' = [out EXCEPT ![t] = <<>>]
  /\ UNCHANGED <<clock, ts, count, index, cache, readers, upgr, writer,
                 hist, setsStarted, setsDone, calls, frameVars, connVars, parseVars, genVars>>

\* if self.keys.len() == 1 { cache.get(&self.keys[0]).await .. }, otherwise
\* for key in self.keys { cache.get(&key).await .. } and, after the loop,
\* dst.end_and_flush().await                             get.rs:62-65,79-80,93
GetApplyLoop(t) ==
  /\ pc[t] = "apply_loop"
  /\ IF loc[t].i <= Len(loc[t].keys)
       THEN /\ pc' = [pc EXCEPT ![t] = "get_lock"]
            /\ loc' = [loc EXCEPT ![t].key = loc[t].keys[loc[t].i],
                                  ![t].setBefore = (setsDone[loc[t].keys[loc[t].i]] > 0),
                                  ![t].id = <<0, 0>>,
                                  ![t].item = None]
            /\ out' = out
       ELSE /\ pc' = [pc EXCEPT ![t] = "apply_done"]
            /\ loc' = loc
            /\ out' = [out EXCEPT ![t] = end_and_flush(out[t])]
  /\ UNCHANGED <<clock, ts, count, index, cache, readers, upgr, writer,
                 hist, setsStarted, setsDone, calls, frameVars, connVars, parseVars, genVars>>

\* GetApplySingle with END written on a miss too
GetApplySingleEndOnMiss(t) ==
  /\ pc[t] = "apply_single"
  /\ out' = [out EXCEPT ![t] =
               IF loc[t].item # None
                 THEN write_and_end(out[t], ValueFrame(loc[t].key, loc[t].item[1]))
                 ELSE end_and_flush(out[t])]
  /\ pc' = [pc EXCEPT ![t] = "apply_done"]
  /\ UNCHANGED <<clock, ts, count, index, cache, readers, upgr, writer, loc,
                 hist, setsStarted, setsDone, calls, frameVars, connVars, parseVars, genVars>>

\* the single-key path: on a hit dst.write_and_end(frame).await, on a miss
\* nothing; return Ok(())                                       get.rs:65-76
GetApplySingle(t) ==
  /\ pc[t] = "apply_single"
  /\ out' = [out EXCEPT ![t] =
               IF loc[t].item # None
                 THEN write_and_end(out[t], ValueFrame(loc[t].key, loc[t].item[1]))
                 ELSE out[t]]
  /\ pc' = [pc EXCEPT ![t] = "apply_done"]
  /\ UNCHANGED <<clock, ts, count, index, cache, readers, upgr, writer, loc,
                 hist, setsStarted, setsDone, calls, frameVars, connVars, parseVars, genVars>>

\* the loop body of the multi-key path.  On a hit the code runs
\* `dst.write(frame);`: Connection::write is an async fn, and the future it
\* returns is dropped without being awaited, so write_value never runs and
\* the stream is left as it was.                                get.rs:80-91
GetApplyMulti(t) ==
  /\ pc[t] = "apply_multi"
  /\ out' = out
  /\ loc' = [loc EXCEPT ![t].i = @ + 1]
  /\ pc' = [pc EXCEPT ![t] = "apply_loop"]
  /\ UNCHANGED <<clock, ts, count, index, cache, readers, upgr, writer,
                 hist, setsStarted, setsDone, calls, frameVars, connVars, parseVars, genVars>>

\* ------------------------------------------------------------------ Set::apply
\* a task applies Command::Set.  The code runs `cache.set(..);`: Cache::set
\* is an async fn, and the future it returns is dropped without being
\* awaited, so no step of Cache::set runs.  Then
\* dst.write_and_flush(ResponseFrame::Stored).await              set.rs:67-77
SetApply(t, k, a) ==
  /\ pc[t] = "idle"
  /\ loc' = [loc EXCEPT ![t] = [Loc0 EXCEPT !.cmd = "set", !.key = k, !.args = a]]
  /\ out' = [out EXCEPT ![t] = write_and_flush(<<>>, Stored)]
  /\ pc' = [pc EXCEPT ![t] = "apply_done"]
  /\ UNCHANGED <<clock, ts, count, index, cache, readers, upgr, writer,
                 hist, setsStarted, setsDone, calls, frameVars, connVars, parseVars, genVars>>

\* Command::apply returns Ok(()) to its caller                commands.rs:80-90
ApplyRet(t) ==
  /\ pc[t] = "apply_done"
  /\ pc' = [pc EXCEPT ![t] = "idle"]
  /\ loc' = [loc EXCEPT ![t] = Loc0]
  /\ out' = [out EXCEPT ![t] = <<>>]
  /\ UNCHANGED <<clock, ts, count, index, cache, readers, upgr, writer,
                 hist, setsStarted, setsDone, calls, frameVars, connVars, parseVars, genVars>>

\* ------------------------------------------------------------------ Spec
\* the steps of Cache::set, Generator::gen included
SetSteps(t) ==
  \/ SetLock(t)
  \/ SetLookup(t)
  \/ SetGetCas(t)
  \/ SetPut(t)
  \/ GenNow(t)
  \/ GenSwap(t)
  \/ GenCount(t)
  \/ SetUpgrade(t)
  \/ SetIndexInsert(t)
  \/ SetRec(t)
  \/ SetRet(t)

\* the steps of Cache::get
GetSteps(t) ==
  \/ GetLock(t)
  \/ GetLookup(t)
  \/ GetRec(t)
  \/ GetRet(t)

\* tasks calling Cache::get and Cache::set on one shared Cache while the wall
\* clock advances
Next ==
  \/ Tick
  \/ \E t \in Tasks :
       \/ \E k \in Keys, a \in SetArgs : SetCall(t, k, a)
       \/ SetSteps(t)
       \/ \E k \in Keys : GetCall(t, k)
       \/ GetSteps(t)

Spec == Init /\ [][Next]_vars

\* a task makes the next of its MaxCalls calls, a Cache::set         cache.rs:77
CallSet(t, k, a) ==
  /\ pc[t] = "idle"
  /\ calls[t] < MaxCalls
  /\ calls' = [calls EXCEPT ![t] = @ + 1]
  /\ pc' = [pc EXCEPT ![t] = "set_lock"]
  /\ loc' = [loc EXCEPT ![t] = [Loc0 EXCEPT !.key = k, !.args = a]]
  /\ setsStarted' = [setsStarted EXCEPT ![k] = @ + 1]
  /\ UNCHANGED <<clock, ts, count, index, cache, readers, upgr, writer, out,
                 hist, setsDone, frameVars, connVars, parseVars, genVars>>

\* a task makes the next of its MaxCalls calls, a Cache::get         cache.rs:60
CallGet(t, k) ==
  /\ pc[t] = "idle"
  /\ calls[t] < MaxCalls
  /\ calls' = [calls EXCEPT ![t] = @ + 1]
  /\ pc' = [pc EXCEPT ![t] = "get_lock"]
  /\ loc' = [loc EXCEPT ![t] = [Loc0 EXCEPT !.key = k, !.setBefore = (setsDone[k] > 0)]]
  /\ UNCHANGED <<clock, ts, count, index, cache, readers, upgr, writer, out,
                 hist, setsStarted, setsDone, frameVars, connVars, parseVars, genVars>>

\* the calls and steps of one task that makes MaxCalls calls
TaskSteps(t) ==
  \/ \E k \in Keys, a \in SetArgs : CallSet(t, k, a)
  \/ \E k \in Keys : CallGet(t, k)
  \/ SetSteps(t)
  \/ GetSteps(t)

\* a finite set of Cache::get and Cache::set calls, MaxCalls from each task,
\* on one shared Cache within one wall-clock second
NextCalls == \E t \in Tasks : TaskSteps(t)

SpecCalls == Init /\ [][NextCalls]_vars

\* the same under a fair scheduler: the tokio runtime keeps polling every
\* task that can take a step, and parking_lot wakes a thread that waits for
\* a lock that is free                                        main.rs:23-45
SpecCallsFair ==
  Init /\ [][NextCalls]_vars /\ \A t \in Tasks : WF_vars(TaskSteps(t))

\* tasks applying Get and Set commands to one shared Cache, which Cache::set
\* calls fill, all within one wall-clock second
NextApply ==
  \E t \in Tasks :
    \/ \E k \in Keys, a \in SetArgs : SetCall(t, k, a)
    \/ SetSteps(t)
    \/ GetSteps(t)
    \/ \E ks \in KeyLists : GetApplyCall(t, ks)
    \/ GetApplyLoop(t)
    \/ GetApplySingle(t)
    \/ GetApplyMulti(t)
    \/ \E k \in Keys, a \in SetArgs : SetApply(t, k, a)
    \/ ApplyRet(t)

SpecApply == Init /\ [][NextApply]_vars

\* ------------------------------------------------------------------ Generator specifications
\* the steps of a gen() call
GenSteps(t) ==
  \/ GenNow(t)
  \/ GenSwap(t)
  \/ GenCount(t)
  \/ GenRet(t)

\* strictly sequential gen() calls on one generator while the clock advances
NextGenSeq ==
  \/ Tick
  \/ \E t \in Tasks : GenCallSeq(t) \/ GenSteps(t)

SpecGenSeq == Init /\ [][NextGenSeq]_vars

\* concurrent gen() calls on one generator while the clock advances
NextGen ==
  \/ Tick
  \/ \E t \in Tasks : GenCall(t) \/ GenSteps(t)

SpecGen == Init /\ [][NextGen]_vars

\* ------------------------------------------------------------------ frame codec
CR == "\r"
LF == "\n"

\* the bytes the enumerated read buffers are made of: one first byte of a
\* storage command, one other byte, and the two bytes of the line terminator
Bytes == {"s", "k", CR, LF}

\* the first bytes that make a two-line frame                   frame.rs:50,64
StorageBytes == {"s", "a", "r", "p", "c"}

\* the buffers of the examples: "GET k\r\n", "GET k" and
\* "set k 0 0 2\r\nhi\r\n"
ExampleGet == <<"G", "E", "T", " ", "k", CR, LF>>
ExampleGetNoCrlf == <<"G", "E", "T", " ", "k">>
ExampleSet ==
  <<"s", "e", "t", " ", "k", " ", "0", " ", "0", " ", "2", CR, LF, "h", "i", CR, LF>>

Buffers == SeqsUpTo(Bytes, MaxBuf) \cup {ExampleGet, ExampleGetNoCrlf, ExampleSet}

Incomplete == [ok |-> FALSE, line |-> <<>>, pos |-> 0]

\* get_line: scan from the cursor for "\r\n"; on success return the bytes
\* from the cursor up to the "\r" and move the cursor past the "\n".  A
\* cursor position p is 0-based: byte p of the buffer is b[p + 1].  The code
\* computes len() - 1 in usize, which fails on an empty buffer. frame.rs:5-23
get_line(b, p) ==
  IF Len(b) = 0 THEN [ok |-> FALSE, line |-> <<"panic">>, pos |-> p]
  ELSE LET end  == Len(b) - 1
           hits == {i \in p..(end - 1) : b[i + 1] = CR /\ b[i + 2] = LF}
       IN  IF hits = {} THEN [Incomplete EXCEPT !.pos = p]
           ELSE LET i == CHOOSE x \in hits : \A y \in hits : x <= y
                IN  [ok |-> TRUE, line |-> SubSeq(b, p + 1, i), pos |-> i + 2]

\* get_first_byte: Incomplete when nothing remains, otherwise src.get_u8(),
\* which returns the byte at the cursor and advances the cursor by one
\*                                                             frame.rs:80-86
get_first_byte(b, p) ==
  IF p >= Len(b) THEN [ok |-> FALSE, byte |-> "", pos |-> p]
  ELSE [ok |-> TRUE, byte |-> b[p + 1], pos |-> p + 1]

\* RequestFrame::check: [ok, pos], pos the cursor's final position
\*                                                             frame.rs:48-59
check(b, p) ==
  LET fb == get_first_byte(b, p)
  IN  IF ~fb.ok THEN [ok |-> FALSE, pos |-> fb.pos]
      ELSE LET l1 == get_line(b, fb.pos)
           IN  IF ~l1.ok THEN [ok |-> FALSE, pos |-> l1.pos]
               ELSE IF fb.byte \in StorageBytes
                 THEN LET l2 == get_line(b, l1.pos)
                      IN  [ok |-> l2.ok, pos |-> l2.pos]
                 ELSE [ok |-> TRUE, pos |-> l1.pos]

\* RequestFrame::Storage(StorageFrame { command_line, data })  frame.rs:27-37
StorageFrame(cl, d) == [kind |-> "Storage", command_line |-> cl, data |-> d]

\* RequestFrame::Other(bytes); the line is kept in command_line    frame.rs:36
OtherFrame(l) == [kind |-> "Other", command_line |-> l, data |-> <<>>]

\* RequestFrame::parse: [ok, frame, pos]                       frame.rs:62-72
parse(b, p) ==
  LET fb == get_first_byte(b, p)
  IN  IF ~fb.ok THEN [ok |-> FALSE, frame |-> NoFrame, pos |-> fb.pos]
      ELSE LET l1 == get_line(b, fb.pos)
           IN  IF ~l1.ok THEN [ok |-> FALSE, frame |-> NoFrame, pos |-> l1.pos]
               ELSE IF fb.byte \in StorageBytes
                 THEN LET l2 == get_line(b, l1.pos)
                      IN  IF ~l2.ok
                            THEN [ok |-> FALSE, frame |-> NoFrame, pos |-> l2.pos]
                            ELSE [ok |-> TRUE, frame |-> StorageFrame(l1.line, l2.line),
                                  pos |-> l2.pos]
                 ELSE [ok |-> TRUE, frame |-> OtherFrame(l1.line), pos |-> l1.pos]

\* a cursor at position 0 over some buffered bytes, beside a fresh cache
\*                                                            connection.rs:76
FrameInit ==
  /\ CacheInit
  /\ buf \in Buffers
  /\ pos = 0
  /\ fres = NoResult
  /\ ConnIdle
  /\ ParseIdle
  /\ GenIdle

\* RequestFrame::check(&mut buf) on the cursor                connection.rs:83
FrameCheck ==
  /\ fres.op = "none"
  /\ LET r == check(buf, pos)
     IN  /\ pos' = r.pos
         /\ fres' = [op |-> "check", ok |-> r.ok, frame |-> NoFrame]
  /\ UNCHANGED <<buf, cacheVars, connVars, parseVars, genVars>>

\* after a successful check: buf.set_position(0) and
\* RequestFrame::parse(&mut buf)                          connection.rs:93,102
FrameParse ==
  /\ fres.op = "check"
  /\ fres.ok
  /\ LET r == parse(buf, 0)
     IN  /\ pos' = r.pos
         /\ fres' = [op |-> "parse", ok |-> r.ok, frame |-> r.frame]
  /\ UNCHANGED <<buf, cacheVars, connVars, parseVars, genVars>>

NextFrame == FrameCheck \/ FrameParse

SpecFrame == FrameInit /\ [][NextFrame]_vars

\* ------------------------------------------------------------------ Connection (read side)
\* the byte streams a peer sends before it closes its end
Streams == Buffers

\* read_frame returned Ok(Some(frame))                       connection.rs:46
ReadSome(f) == [kind |-> "Some", frame |-> f]

\* read_frame returned Ok(None)                              connection.rs:61
ReadNone == [kind |-> "None"]

\* read_frame returned Err("connection reset by peer")       connection.rs:63
ReadReset == [kind |-> "Err", msg |-> "connection reset by peer"]

\* read_frame returned the error of RequestFrame::parse   connection.rs:45,102
ReadParseErr == [kind |-> "Err", msg |-> "Incomplete"]

\* parse_frame with the read buffer emptied when no frame is found
parse_frameClearsBuffer(b) ==
  LET c == check(b, 0)
  IN  IF c.ok
        THEN LET r == parse(b, 0)
             IN  IF r.ok
                   THEN [kind |-> "Some", frame |-> r.frame,
                         buffer |-> SubSeq(b, c.pos + 1, Len(b))]
                   ELSE [kind |-> "Err", frame |-> NoFrame, buffer |-> b]
        ELSE [kind |-> "None", frame |-> NoFrame, buffer |-> <<>>]

\* Connection::parse_frame on the read buffer b: check from position 0; on
\* success len = the cursor's position, parse from position 0 and
\* self.buffer.advance(len).  The arm `Err(Incomplete) => Ok(None)` binds
\* every error of check to the name Incomplete, so every failure of check
\* gives Ok(None) and the arm after it is never taken.  connection.rs:73-127
parse_frame(b) ==
  LET c == check(b, 0)
  IN  IF c.ok
        THEN LET r == parse(b, 0)
             IN  IF r.ok
                   THEN [kind |-> "Some", frame |-> r.frame,
                         buffer |-> SubSeq(b, c.pos + 1, Len(b))]
                   ELSE [kind |-> "Err", frame |-> NoFrame, buffer |-> b]
        ELSE [kind |-> "None", frame |-> NoFrame, buffer |-> b]

\* a new connection whose peer sends some stream; read_frame is called
\*                                                    connection.rs:23-28,41
ConnInit ==
  /\ CacheInit
  /\ FrameIdle
  /\ ParseIdle
  /\ GenIdle
  /\ stream \in Streams
  /\ frames = <<>>
  /\ rpc = "parse"
  /\ rres = NoRead

\* if let Some(frame) = self.parse_frame()? { return Ok(Some(frame)); }
\*                                                        connection.rs:45-47
ReadFrameParse ==
  /\ rpc = "parse"
  /\ LET r == parse_frame(buf)
     IN  /\ buf' = r.buffer
         /\ frames' = IF r.kind = "Some" THEN Append(frames, r.frame) ELSE frames
         /\ rres' = IF r.kind = "Some" THEN ReadSome(r.frame)
                    ELSE IF r.kind = "Err" THEN ReadParseErr ELSE rres
         /\ rpc' = IF r.kind = "Some" THEN "ret"
                   ELSE IF r.kind = "Err" THEN "done" ELSE "read"
  /\ UNCHANGED <<stream, pos, fres, cacheVars, parseVars, genVars>>

\* ReadBuf with the delivered bytes put in place of the buffered ones
ReadBufOverwrites(n) ==
  /\ rpc = "read"
  /\ n \in 1..Len(stream)
  /\ buf' = SubSeq(stream, 1, n)
  /\ stream' = SubSeq(stream, n + 1, Len(stream))
  /\ rpc' = "parse"
  /\ UNCHANGED <<frames, rres, pos, fres, cacheVars, parseVars, genVars>>

\* self.stream.read_buf(&mut self.buffer).await? delivers n >= 1 bytes:
\* they are appended to the read buffer and the loop tries again
\*                                                        connection.rs:54,42
ReadBuf(n) ==
  /\ rpc = "read"
  /\ n \in 1..Len(stream)
  /\ buf' = buf \o SubSeq(stream, 1, n)
  /\ stream' = SubSeq(stream, n + 1, Len(stream))
  /\ rpc' = "parse"
  /\ UNCHANGED <<frames, rres, pos, fres, cacheVars, parseVars, genVars>>

\* ReadEof with a clean close reported whatever is buffered
ReadEofAlwaysNone ==
  /\ rpc = "read"
  /\ stream = <<>>
  /\ rres' = ReadNone
  /\ rpc' = "done"
  /\ UNCHANGED <<buf, stream, frames, pos, fres, cacheVars, parseVars, genVars>>

\* read_buf returns 0, the end of the stream: Ok(None) if the read buffer
\* is empty, the reset error otherwise                     connection.rs:55-65
ReadEof ==
  /\ rpc = "read"
  /\ stream = <<>>
  /\ rres' = IF buf = <<>> THEN ReadNone ELSE ReadReset
  /\ rpc' = "done"
  /\ UNCHANGED <<buf, stream, frames, pos, fres, cacheVars, parseVars, genVars>>

\* the caller got a frame and calls read_frame again          connection.rs:41
ReadFrameCall ==
  /\ rpc = "ret"
  /\ rpc' = "parse"
  /\ UNCHANGED <<buf, stream, frames, rres, pos, fres, cacheVars, parseVars, genVars>>

NextConn ==
  \/ ReadFrameParse
  \/ \E n \in 1..MaxBuf : ReadBuf(n)
  \/ ReadEof
  \/ ReadFrameCall

SpecConn == ConnInit /\ [][NextConn]_vars

\* ------------------------------------------------------------------ Parse
SP == " "

\* the ASCII decimal digits, in order of value
Digits == <<"0", "1", "2", "3", "4", "5", "6", "7", "8", "9">>

DigitSet == {Digits[i] : i \in 1..10}

DigitValue(c) == (CHOOSE i \in 1..10 : Digits[i] = c) - 1

\* the result of a tokenizer call: kind is "Ok", "Err" or "panic"
TokOk(tok, p) == [kind |-> "Ok", token |-> tok, pos |-> p, error |-> ""]
TokErr(e, p) == [kind |-> "Err", token |-> <<>>, pos |-> p, error |-> e]
TokPanic(p) == [kind |-> "panic", token |-> <<>>, pos |-> p, error |-> ""]

\* Parse::next with the trailing SPACE left in the token it returns
nextKeepsSpace(l, p) ==
  IF Len(l) = 0 THEN TokPanic(p)
  ELSE LET start == p + 1
           end   == Len(l) - 1
           hits  == {i \in start..(end - 1) : l[i + 1] = SP}
       IN  IF hits # {}
             THEN LET i == CHOOSE x \in hits : \A y \in hits : x <= y
                  IN  TokOk(SubSeq(l, p + 1, i + 1), i + 1)
             ELSE IF p < Len(l) THEN TokOk(SubSeq(l, p + 1, Len(l)), p)
                  ELSE TokErr("EndOfLine", p)

\* Parse::next on the line l with the cursor at p (0-based: byte p is
\* l[p + 1]).  The scan runs over the bytes p + 1 .. len - 2; at a SPACE at
\* byte i the cursor moves to i + 1 and the bytes p .. i - 1 are returned.
\* Without one, the bytes from p to the end are returned and the cursor is
\* left where it was; EndOfLine needs p >= len.  On an empty line len() - 1
\* underflows: a debug build panics on the subtraction, a release build
\* wraps to usize::MAX and panics on the index [1], so both panic.
\*                                                              parse.rs:41-62
next(l, p) ==
  IF Len(l) = 0 THEN TokPanic(p)
  ELSE LET start == p + 1
           end   == Len(l) - 1
           hits  == {i \in start..(end - 1) : l[i + 1] = SP}
       IN  IF hits # {}
             THEN LET i == CHOOSE x \in hits : \A y \in hits : x <= y
                  IN  TokOk(SubSeq(l, p + 1, i), i + 1)
             ELSE IF p < Len(l) THEN TokOk(SubSeq(l, p + 1, Len(l)), p)
                  ELSE TokErr("EndOfLine", p)

\* Parse::next_string: the enumerated bytes are ASCII, so from_utf8 succeeds
\*                                                              parse.rs:67-73
next_string(l, p) == next(l, p)

\* the value of the longest prefix of decimal digits of a token
RECURSIVE LeadingValue(_, _)
LeadingValue(tok, acc) ==
  IF tok = <<>> \/ tok[1] \notin DigitSet THEN acc
  ELSE LeadingValue(Tail(tok), 10 * acc + DigitValue(tok[1]))

\* atoi::<u32>: None unless the token starts with a digit, otherwise the
\* value of its leading digits (the enumerated numbers are far below 2^32,
\* where atoi gives None)                                        parse.rs:87
atoi(tok) ==
  IF tok = <<>> \/ tok[1] \notin DigitSet THEN None ELSE Some(LeadingValue(tok, 0))

\* Parse::next_u32: [kind, token, value, pos, error]                 parse.rs:86-88
next_u32(l, p) ==
  LET r == next(l, p)
  IN  IF r.kind # "Ok" THEN [r EXCEPT !.token = <<>>] @@ [value |-> 0]
      ELSE IF atoi(r.token) = None
        THEN [kind |-> "Err", token |-> r.token, pos |-> r.pos, error |-> "U32", value |-> 0]
        ELSE [r EXCEPT !.kind = "Ok"] @@ [value |-> atoi(r.token)[1]]

\* Parse::complete                                           parse.rs:98-102
complete(l, p) == p > Len(l)

\* Parse::finish: "Ok" or the error LineToLong              parse.rs:105-113
finish(l, p) == IF p > Len(l) THEN "Ok" ELSE "LineToLong"

\* ------------------------------------------------------------------ Command::from_frame
\* Command::Set(Set { key, flags, cas: 0, expiration, data })     set.rs:60
SetCommand(key, flags, expiration, data) ==
  [kind |-> "Set", key |-> key, flags |-> flags, cas |-> 0,
   expiration |-> expiration, data |-> data]

\* Command::Get(Get { keys })                                      get.rs:53
GetCommand(keys) == [kind |-> "Get", keys |-> keys]

\* what the command parser returns: Ok(command), Err(error), or a panic
CmdOk(c) == [kind |-> "Ok", command |-> c]
CmdErr(e) == [kind |-> "Err", error |-> e]
CmdPanic == [kind |-> "panic"]

\* the result of a tokenizer call that did not return Ok, as a result of the
\* command parser (the `?` operator)
CmdFail(r) == IF r.kind = "panic" THEN CmdPanic ELSE CmdErr(r.error)

\* Set::parse_frame with the cursor at p: key, flags, expiration and the
\* data length, which is read and dropped; the data buffer is passed on.
\* [res, pos, toks]: the result, the cursor's position, the tokens read
\*                                                              set.rs:48-61
Set_parse_frame(l, p, data) ==
  LET k == next_string(l, p)
  IN  IF k.kind # "Ok" THEN [res |-> CmdFail(k), pos |-> k.pos, toks |-> <<>>]
      ELSE
  LET f == next_u32(l, k.pos)
  IN  IF f.kind # "Ok"
        THEN [res |-> CmdFail(f), pos |-> f.pos, toks |-> <<k.token>> \o
                                                  (IF f.error = "U32" THEN <<f.token>> ELSE <<>>)]
      ELSE
  LET e == next_u32(l, f.pos)
  IN  IF e.kind # "Ok"
        THEN [res |-> CmdFail(e), pos |-> e.pos, toks |-> <<k.token, f.token>> \o
                                                  (IF e.error = "U32" THEN <<e.token>> ELSE <<>>)]
      ELSE
  LET d == next_u32(l, e.pos)
  IN  IF d.kind # "Ok"
        THEN [res |-> CmdFail(d), pos |-> d.pos, toks |-> <<k.token, f.token, e.token>> \o
                                                  (IF d.error = "U32" THEN <<d.token>> ELSE <<>>)]
        ELSE [res |-> CmdOk(SetCommand(k.token, f.value, Some(e.value), data)),
              pos |-> d.pos, toks |-> <<k.token, f.token, e.token, d.token>>]

\* the command lines of the examples: "get k", "get k j", "get",
\* "set k 0 0 2", "set k 7 30 2", "set k 0 0 2 x", "set k 0" and "add k 0 0 2"
LineGet == <<"g", "e", "t", SP, "k">>
LineGetTwo == <<"g", "e", "t", SP, "k", SP, "j">>
LineGetNoKey == <<"g", "e", "t">>
LineSet == <<"s", "e", "t", SP, "k", SP, "0", SP, "0", SP, "2">>
LineSetFlags == <<"s", "e", "t", SP, "k", SP, "7", SP, "3", "0", SP, "2">>
LineSetExtra == <<"s", "e", "t", SP, "k", SP, "0", SP, "0", SP, "2", SP, "x">>
LineSetShort == <<"s", "e", "t", SP, "k", SP, "0">>
LineAdd == <<"a", "d", "d", SP, "k", SP, "0", SP, "0", SP, "2">>

\* the enumerated command lines: every line of a key byte and SPACE up to
\* MaxLine bytes, and the examples
Lines ==
  SeqsUpTo({"k", SP}, MaxLine) \cup
    {LineGet, LineGetTwo, LineGetNoKey, LineSet, LineSetFlags, LineSetExtra,
     LineSetShort, LineAdd}

\* the data lines of storage frames; a data line may hold SPACE
Datas == {<<"h", "i">>, <<"h", SP, "i">>}

\* the frames handed to Command::from_frame
Frames ==
  {OtherFrame(l) : l \in Lines} \cup {StorageFrame(l, d) : l \in Lines, d \in Datas}

\* some frame is about to be turned into a command           commands.rs:31
ParseInit ==
  /\ CacheInit
  /\ FrameIdle
  /\ ConnIdle
  /\ GenIdle
  /\ pin \in Frames
  /\ pline = <<>>
  /\ ppos = 0
  /\ ppc = "start"
  /\ ptoks = <<>>
  /\ pres = NoCommand

\* Command::from_frame on a Storage frame: Parse::new(command_line), the
\* command name, Set::parse_frame for "set" (Unknown otherwise), and
\* parse.finish()                                           commands.rs:48-63
FromFrameStorage ==
  /\ ppc = "start"
  /\ pin.kind = "Storage"
  /\ pline' = pin.command_line
  /\ LET name == next_string(pin.command_line, 0)
     IN  IF name.kind # "Ok"
           THEN /\ pres' = CmdFail(name)
                /\ ppos' = name.pos
                /\ ptoks' = <<>>
         ELSE IF name.token # <<"s", "e", "t">>
           THEN /\ pres' = CmdErr("Unknown")
                /\ ppos' = name.pos
                /\ ptoks' = <<name.token>>
         ELSE LET r == Set_parse_frame(pin.command_line, name.pos, pin.data)
              IN  /\ pres' = IF r.res.kind # "Ok" THEN r.res
                             ELSE IF finish(pin.command_line, r.pos) = "Ok" THEN r.res
                             ELSE CmdErr("LineToLong")
                  /\ ppos' = r.pos
                  /\ ptoks' = <<name.token>> \o r.toks
  /\ ppc' = "done"
  /\ UNCHANGED <<pin, cacheVars, frameVars, connVars, genVars>>

\* Command::from_frame on an Other frame: Parse::new(frame) and the command
\* name; "get" goes on to Get::parse_frame, anything else is Unknown
\*                                                          commands.rs:33-44
FromFrameOther ==
  /\ ppc = "start"
  /\ pin.kind = "Other"
  /\ pline' = pin.command_line
  /\ LET name == next_string(pin.command_line, 0)
     IN  /\ ppos' = name.pos
         /\ IF name.kind # "Ok"
              THEN /\ pres' = CmdFail(name)
                   /\ ptoks' = <<>>
                   /\ ppc' = "done"
            ELSE IF name.token # <<"g", "e", "t">>
              THEN /\ pres' = CmdErr("Unknown")
                   /\ ptoks' = <<name.token>>
                   /\ ppc' = "done"
              ELSE /\ pres' = pres
                   /\ ptoks' = <<name.token>>
                   /\ ppc' = "get_first"
  /\ UNCHANGED <<pin, cacheVars, frameVars, connVars, genVars>>

\* let mut keys = vec![parse.next_string()?]; the keys vector is the tokens
\* read after the command name                                     get.rs:47
GetParseFirst ==
  /\ ppc = "get_first"
  /\ LET r == next_string(pline, ppos)
     IN  /\ ppos' = r.pos
         /\ IF r.kind = "Ok"
              THEN /\ ptoks' = Append(ptoks, r.token)
                   /\ pres' = pres
                   /\ ppc' = "get_loop"
              ELSE /\ ptoks' = ptoks
                   /\ pres' = CmdFail(r)
                   /\ ppc' = "done"
  /\ UNCHANGED <<pin, pline, cacheVars, frameVars, connVars, genVars>>

\* while !parse.complete() { keys.push(parse.next_string()?) }, and after the
\* loop Ok(Get { keys }) and from_frame's parse.finish()
\*                                             get.rs:49-53, commands.rs:45-46
GetParseLoop ==
  /\ ppc = "get_loop"
  /\ IF complete(pline, ppos)
       THEN /\ pres' = IF finish(pline, ppos) = "Ok" THEN CmdOk(GetCommand(Tail(ptoks)))
                       ELSE CmdErr("LineToLong")
            /\ ppc' = "done"
            /\ UNCHANGED <<ppos, ptoks>>
       ELSE /\ Len(ptoks) < MaxNext
            /\ LET r == next_string(pline, ppos)
               IN  /\ ppos' = r.pos
                   /\ IF r.kind = "Ok"
                        THEN /\ ptoks' = Append(ptoks, r.token)
                             /\ pres' = pres
                             /\ ppc' = "get_loop"
                        ELSE /\ ptoks' = ptoks
                             /\ pres' = CmdFail(r)
                             /\ ppc' = "done"
  /\ UNCHANGED <<pin, pline, cacheVars, frameVars, connVars, genVars>>

\* Parse::new(command_line) by a caller that reads the tokens itself
\*                                                              parse.rs:36-38
ParseNew ==
  /\ ppc = "start"
  /\ pline' = pin.command_line
  /\ ppos' = 0
  /\ ppc' = "tok"
  /\ UNCHANGED <<pin, ptoks, pres, cacheVars, frameVars, connVars, genVars>>

\* one more Parse::next call                                    parse.rs:41-62
ParseNext ==
  /\ ppc = "tok"
  /\ Len(ptoks) < MaxNext
  /\ LET r == next(pline, ppos)
     IN  /\ ppos' = r.pos
         /\ IF r.kind = "Ok"
              THEN /\ ptoks' = Append(ptoks, r.token)
                   /\ pres' = pres
                   /\ ppc' = "tok"
              ELSE /\ ptoks' = ptoks
                   /\ pres' = CmdFail(r)
                   /\ ppc' = "tok_done"
  /\ UNCHANGED <<pin, pline, cacheVars, frameVars, connVars, genVars>>

NextParse ==
  \/ FromFrameStorage
  \/ FromFrameOther
  \/ GetParseFirst
  \/ GetParseLoop
  \/ ParseNew
  \/ ParseNext

SpecParse == ParseInit /\ [][NextParse]_vars

\* ------------------------------------------------------------------ claims: Cache
ArgsOf(item) == [flags |-> item.flags, expiration |-> item.expiration, data |-> item.data]

\* C1: a get that finds its key in the index always finds the record of that
\* identifier in the record map: the unwrap in Cache::get never panics, in
\* any interleaving with sets.
C1_GetNeverMissesRecord ==
  \A t \in Tasks : pc[t] # "panic"

\* C2: whenever no set is running, no two distinct keys of the index hold the
\* same identifier and every identifier of the index has a stored record.
C2_IdentifiersNeverReused ==
  upgr = None =>
    /\ \A k1 \in DOMAIN index, k2 \in DOMAIN index : k1 # k2 => index[k1] # index[k2]
    /\ \A k \in DOMAIN index : index[k] \in DOMAIN cache

\* C3: a get that reads the record of its key when n >= 1 sets of that key have
\* been called and all n have returned gets cas = n - 1.
C3_CasCountsSets ==
  [][\A t \in Tasks :
       (/\ GetRec(t)
        /\ pc'[t] = "get_ret"
        /\ setsStarted[loc[t].key] = setsDone[loc[t].key])
       => loc'[t].item[1].cas = setsDone[loc[t].key] - 1]_vars

\* C4: a get that returns cas = n returns the flags, expiration and data of
\* the (n+1)-th set applied to its key.
C4_GetReturnsNthSet ==
  \A t \in Tasks :
    (pc[t] = "get_ret" /\ loc[t].item # None) =>
      LET it == loc[t].item[1]
      IN  /\ it.cas + 1 <= Len(hist[loc[t].key])
          /\ hist[loc[t].key][it.cas + 1] = ArgsOf(it)

\* C5 as stated: a get returns an item if and only if at least one set of its
\* key has returned before it.
C5_SomeIffSetCompleted ==
  \A t \in Tasks :
    pc[t] = "get_ret" => ((loc[t].item # None) <=> (setsDone[loc[t].key] >= 1))

\* C5 amended: a get returns an item whenever a set of its key has returned
\* before it (and then it does not panic either), and returns an item only if
\* a set of its key has put the key into the index, which may be a set that
\* is still running; a key no set was called for yields None.
C5_SomeAfterSetNoneBeforeAny ==
  \A t \in Tasks :
    /\ pc[t] = "get_ret" =>
         /\ setsDone[loc[t].key] >= 1 => loc[t].item # None
         /\ loc[t].setBefore => loc[t].item # None
         /\ loc[t].item # None =>
              /\ loc[t].key \in DOMAIN index
              /\ setsStarted[loc[t].key] >= 1
              /\ loc[t].item[1].key = loc[t].key
    /\ (pc[t] = "panic" /\ loc[t].cmd = "none") => ~loc[t].setBefore

\* C5 witness: one get returns an item for a key whose set returned before the
\* get was called, while another get returns None for a key never set.
C5_Witness ==
  \E t1 \in Tasks, t2 \in Tasks :
    /\ pc[t1] = "get_ret" /\ loc[t1].setBefore /\ loc[t1].item # None
    /\ pc[t2] = "get_ret" /\ setsStarted[loc[t2].key] = 0 /\ loc[t2].item = None

\* ------------------------------------------------------------------ claims: commands
\* C6: when Set::apply has written its response, the response is STORED and
\* the cache holds the command's key with the command's flags, expiration and
\* data (so that a Get of the key is a hit).
C6_SetApplyStores ==
  \A t \in Tasks :
    (pc[t] = "apply_done" /\ loc[t].cmd = "set") =>
      /\ out[t] = <<Stored>>
      /\ loc[t].key \in DOMAIN index
      /\ index[loc[t].key] \in DOMAIN cache
      /\ ArgsOf(cache[index[loc[t].key]]) = loc[t].args

\* the VALUE responses of the items a Get found, in the order it found them
ValuesOf(hits) == [i \in 1..Len(hits) |-> ValueFrame(hits[i].key, hits[i])]

\* C7: a Get of two or more keys has written, when it returns, one VALUE
\* response for each requested key that Cache::get found, in request order,
\* nothing for the others, and then one END line.
C7_MultiGetWritesValuesThenEnd ==
  \A t \in Tasks :
    (pc[t] = "apply_done" /\ loc[t].cmd = "get" /\ Len(loc[t].keys) >= 2) =>
      out[t] = ValuesOf(loc[t].hits) \o <<EndLine>>

Terminators(b) == {i \in 0..(Len(b) - 2) : b[i + 1] = CR /\ b[i + 2] = LF}

\* the k-th line of a buffer that has at least k terminators: the bytes
\* between the (k-1)-th terminator (or the start) and the k-th terminator
RECURSIVE LineEnd(_, _)
LineEnd(b, k) ==
  LET from == IF k = 1 THEN 0 ELSE LineEnd(b, k - 1) + 2
      cand == {i \in Terminators(b) : i >= from}
  IN  CHOOSE x \in cand : \A y \in cand : x <= y

LineStart(b, k) == IF k = 1 THEN 0 ELSE LineEnd(b, k - 1) + 2

Line(b, k) == SubSeq(b, LineStart(b, k) + 1, LineEnd(b, k))

\* the number of terminators the first byte of a buffer asks for
Required(b) == IF b[1] \in StorageBytes THEN 2 ELSE 1

\* C9: for a buffer that holds a complete frame, parse returns the lines
\* unchanged: a storage frame's command_line is the whole first line, from
\* its first byte, and its data the whole second line; a one-line frame holds
\* the whole line.
C9_ParseReturnsWholeLines ==
  (fres.op = "parse" /\ fres.ok) =>
    fres.frame = IF buf[1] \in StorageBytes
                   THEN StorageFrame(Line(buf, 1), Line(buf, 2))
                   ELSE OtherFrame(Line(buf, 1))

\* C10: check succeeds exactly when the buffer, from the cursor's starting
\* position 0, has the number of terminators its first byte asks for (two
\* for s, a, r, p, c and one otherwise), and reports incomplete in every other
\* case, the empty buffer included.
C10_CheckCountsTerminators ==
  fres.op = "check" =>
    (fres.ok <=> (Len(buf) > 0 /\ Cardinality(Terminators(buf)) >= Required(buf)))

\* ------------------------------------------------------------------ claims: Connection
\* a buffer holds a complete frame when it has the terminators its first
\* byte asks for
Complete(b) == Len(b) > 0 /\ Cardinality(Terminators(b)) >= Required(b)

\* the first frame of a buffer that holds a complete frame, and the number
\* of bytes it takes, its final terminator included
FirstFrame(b) ==
  IF b[1] \in StorageBytes THEN StorageFrame(Line(b, 1), Line(b, 2))
                           ELSE OtherFrame(Line(b, 1))

FirstFrameLen(b) == LineEnd(b, Required(b)) + 2

\* C11: when the read buffer does not hold a complete frame, parse_frame
\* returns Ok(None) and leaves the buffer as it is, read_frame goes on to read
\* from the socket, and no frame is returned.
C11_IncompleteYieldsNoneAndReads ==
  [][(rpc = "parse" /\ ~Complete(buf)) =>
       /\ parse_frame(buf).kind = "None"
       /\ buf' = buf
       /\ frames' = frames
       /\ rres' = rres
       /\ rpc' = "read"]_vars

\* C11 witness: the buffer holds "GET k" without its terminator, no frame
\* was returned, and read_frame is reading from a socket that has more bytes.
C11_Witness ==
  /\ rpc = "read"
  /\ buf = ExampleGetNoCrlf
  /\ stream # <<>>
  /\ frames = <<>>

\* C12: each frame read_frame returns is the first frame of the read buffer,
\* and returning it removes exactly that frame's bytes, through its final
\* terminator, and keeps every later byte; a buffer that holds a complete
\* frame never makes read_frame read on without returning it.
C12_FramesInOrderOnce ==
  [][rpc = "parse" =>
       /\ rpc' = "ret" =>
            /\ Complete(buf)
            /\ frames' = Append(frames, FirstFrame(buf))
            /\ buf' = SubSeq(buf, FirstFrameLen(buf) + 1, Len(buf))
       /\ rpc' = "read" => ~Complete(buf)]_vars

\* C13: when the socket reports the end of the stream, read_frame returns
\* Ok(None) if the read buffer is empty and the "connection reset by peer"
\* error if it is not, as it is when a partial frame is buffered.
C13_EofNoneOrReset ==
  [][(rpc = "read" /\ stream = <<>>) =>
       /\ rpc' = "done"
       /\ buf' = buf
       /\ frames' = frames
       /\ buf = <<>> => rres' = ReadNone
       /\ buf # <<>> => rres' = ReadReset
       /\ (buf # <<>> /\ ~Complete(buf)) => rres' = ReadReset]_vars

\* C13 witness: the peer closed after a whole frame and the bytes "GET k" of
\* a partial one; read_frame returned the frame and then the reset error.
C13_Witness ==
  /\ rpc = "done"
  /\ rres = ReadReset
  /\ frames # <<>>
  /\ buf # <<>>
  /\ ~Complete(buf)

\* ------------------------------------------------------------------ claims: commands and Parse
\* the tokens of a line: the runs of bytes between its SPACE separators
RECURSIVE Split(_)
Split(l) ==
  LET sp == {i \in 1..Len(l) : l[i] = SP}
  IN  IF sp = {} THEN <<l>>
      ELSE LET i == CHOOSE x \in sp : \A y \in sp : x <= y
           IN  <<SubSeq(l, 1, i - 1)>> \o Split(SubSeq(l, i + 1, Len(l)))

\* a line of one or more non-empty tokens separated by single SPACEs
WellFormedLine(l) == \A i \in 1..Len(Split(l)) : Split(l)[i] # <<>>

IsNumber(tok) == tok # <<>> /\ \A i \in 1..Len(tok) : tok[i] \in DigitSet

\* a line `set <key> <flags> <expiration> <data_length>` and nothing more
WellFormedSet(l) ==
  /\ WellFormedLine(l)
  /\ Len(Split(l)) = 5
  /\ Split(l)[1] = <<"s", "e", "t">>
  /\ \A i \in 3..5 : IsNumber(Split(l)[i])

\* C14: from_frame on a Storage frame whose command line is a well-formed
\* `set <key> <flags> <expiration> <data_length>` returns Ok(Command::Set)
\* with that key, those flags, that expiration, and the frame's data
\* unchanged.
C14_FromFrameSet ==
  (ppc = "done" /\ pin.kind = "Storage" /\ WellFormedSet(pin.command_line)) =>
    LET t == Split(pin.command_line)
    IN  pres = CmdOk(SetCommand(t[2], LeadingValue(t[3], 0),
                                Some(LeadingValue(t[4], 0)), pin.data))

\* C19: on a well-formed line, once Parse::next has returned every token of
\* the line, complete() is true and finish() is Ok; while fewer tokens than
\* the line has were returned, complete() is false and finish() gives
\* LineToLong.
C19_CompleteAfterLastToken ==
  (ppc = "tok" /\ WellFormedLine(pline)) =>
    /\ ptoks = Split(pline) =>
         (complete(pline, ppos) /\ finish(pline, ppos) = "Ok")
    /\ Len(ptoks) < Len(Split(pline)) =>
         (~complete(pline, ppos) /\ finish(pline, ppos) = "LineToLong")

\* the keys of a line `get <key> ..`
GetKeys(l) == Tail(Split(l))

\* C20: on a line `get` followed by one or more keys, Get::parse_frame never
\* holds more keys than the line has, holds them in line order, and returns
\* with exactly the keys of the line.
C20_GetParseFrameReturnsKeys ==
  (/\ pin.kind = "Other"
   /\ WellFormedLine(pin.command_line)
   /\ Split(pin.command_line)[1] = <<"g", "e", "t">>
   /\ Len(Split(pin.command_line)) >= 2
   /\ ppc \in {"get_loop", "done"}) =>
    /\ Len(Tail(ptoks)) <= Len(GetKeys(pline))
    /\ Tail(ptoks) = SubSeq(GetKeys(pline), 1, Len(Tail(ptoks)))
    /\ ppc = "done" =>
         /\ Tail(ptoks) = GetKeys(pline)
         /\ pres \in {CmdOk(GetCommand(GetKeys(pline))), CmdErr("LineToLong")}

\* ------------------------------------------------------------------ claims: Generator
\* the identifier one above a u64 whose low half is below 2^32 - 1
PlusOne(id) == <<id[1], id[2] + 1>>

\* u64 order on the two halves
IdLeq(a, b) == a[1] < b[1] \/ (a[1] = b[1] /\ a[2] <= b[2])

\* C15: of two consecutive sequential gen() calls that read the same second,
\* the later returns the identifier of the earlier plus 1, also when they
\* follow a second boundary.
C15_SameSecondPlusOne ==
  \A i \in 1..(Len(ids) - 1) :
    ids[i].now = ids[i + 1].now => ids[i + 1].id = PlusOne(ids[i].id)

\* C16: with sequential gen() calls and a clock that does not go back, every
\* identifier is greater than or equal to every identifier returned before.
C16_SequentialNonDecreasing ==
  \A i \in 1..Len(ids), j \in 1..Len(ids) :
    i < j => IdLeq(ids[i].id, ids[j].id)

\* C16 witness: three calls in one second were followed by calls in the next.
C16_Witness ==
  /\ Len(ids) >= 5
  /\ ids[1].now = ids[3].now
  /\ ids[3].now < ids[4].now
  /\ ids[4].now = ids[5].now

\* the decimal digits of a natural number, least significant first
RECURSIVE Dec(_)
Dec(n) == IF n < 10 THEN <<n>> ELSE <<n % 10>> \o Dec(n \div 10)

\* the digits of d * m + carry, for digits d and naturals m, carry
RECURSIVE DecMulAdd(_, _, _)
DecMulAdd(d, m, carry) ==
  IF d = <<>> THEN (IF carry = 0 THEN <<>> ELSE Dec(carry))
  ELSE LET v == d[1] * m + carry
       IN  <<v % 10>> \o DecMulAdd(Tail(d), m, v \div 10)

\* the digits of a + b + carry, for digits a, b
RECURSIVE DecAdd(_, _, _)
DecAdd(a, b, carry) ==
  IF a = <<>> /\ b = <<>> THEN (IF carry = 0 THEN <<>> ELSE <<carry>>)
  ELSE LET x == IF a = <<>> THEN 0 ELSE a[1]
           y == IF b = <<>> THEN 0 ELSE b[1]
           v == x + y + carry
       IN  <<v % 10>> \o DecAdd(IF a = <<>> THEN a ELSE Tail(a),
                                IF b = <<>> THEN b ELSE Tail(b), v \div 10)

\* digits without leading zeros (the last digits of the sequence)
RECURSIVE Trim(_)
Trim(d) == IF Len(d) > 1 /\ d[Len(d)] = 0 THEN Trim(SubSeq(d, 1, Len(d) - 1)) ELSE d

\* the digits of high * 2^32 + low, 2^32 being 65536 * 65536
TimesTwo32Plus(high, low) ==
  Trim(DecAdd(DecMulAdd(DecMulAdd(Dec(high), 65536, 0), 65536, 0), Dec(low), 0))

\* the decimal value of a u64 kept as its halves
U64Decimal(id) == TimesTwo32Plus(id[1], id[2])

\* 4294967301, least significant digit first
Example4294967301 == <<1, 0, 3, 7, 6, 9, 4, 9, 2, 4>>

\* u32 values whose four bytes are not all in the lowest byte
U32Samples == {0, 1, 5, 255, 256, 65535, 65536, 16909060, 2147483647}

\* C17: every identifier gen() returns is timestamp * 2^32 + sequence for the
\* second the call read and the sequence it used, as is combine of any two
\* u32 values; timestamp 1 with sequence 5 is 4294967301; and a call that
\* finds another second stored than the one it read returns sequence 0.
C17_CombineArithmetic ==
  /\ \A i \in 1..Len(ids) :
       /\ U64Decimal(ids[i].id) = TimesTwo32Plus(ids[i].now, ids[i].cnt)
       /\ (ids[i].now = 1 /\ ids[i].cnt = 5) => U64Decimal(ids[i].id) = Example4294967301
       /\ ids[i].now # ids[i].last =>
            /\ ids[i].id[2] = 0
            /\ U64Decimal(ids[i].id) = TimesTwo32Plus(ids[i].now, 0)
  /\ \A x \in U32Samples, y \in U32Samples :
       U64Decimal(combine(x, y)) = TimesTwo32Plus(x, y)

\* C17 witness: a call read second 1 and used sequence 5, and a later call
\* found another second stored than the one it read.
C17_Witness ==
  \E i \in 1..Len(ids), j \in 1..Len(ids) :
    /\ i < j
    /\ ids[i].now = 1 /\ ids[i].cnt = 5
    /\ ids[j].now # ids[j].last

\* C18: the only way to a repeated identifier is the counter reset: two
\* gen() calls that both incremented the counter, with no call resetting it
\* between them, return different identifiers.  The witness shows that the
\* reset does lead to a repeated identifier for two concurrent callers.
C18_DuplicateOnlyThroughReset ==
  \A i \in 1..Len(ids), j \in 1..Len(ids) :
    (i < j /\ ids[i].id = ids[j].id) =>
      \E k \in i..j : ids[k].now # ids[k].last

\* C18 witness: two callers are in gen() at the same time, one of them found
\* another second stored than the one it read (it crossed a second boundary
\* and reset the counter), and both are about to return the same identifier.
C18_Witness ==
  \E t1 \in Tasks, t2 \in Tasks :
    /\ t1 # t2
    /\ pc[t1] = "gen_ret" /\ pc[t2] = "gen_ret"
    /\ loc[t1].id = loc[t2].id
    /\ loc[t1].now # loc[t1].last
    /\ loc[t2].now = loc[t2].last

\* ------------------------------------------------------------------ claims: Parse errors and tokens
\* the tokens of a line; an empty line has none
TokensOf(l) == IF l = <<>> THEN <<>> ELSE Split(l)

\* a line `set` followed by fewer than the four fields of a set command
ShortSet(l) ==
  /\ WellFormedLine(l)
  /\ Split(l)[1] = <<"s", "e", "t">>
  /\ Len(Split(l)) < 5

\* C21: Parse::next never returns more tokens than the line has: the call
\* made when every token has been returned (or on an empty line) gives the
\* EndOfLine error; and from_frame on a set line that lacks one of key,
\* flags, expiration and data_length gives that error.
C21_EndOfLineWhenNoTokenLeft ==
  /\ (ppc \in {"tok", "tok_done"} /\ (pline = <<>> \/ WellFormedLine(pline))) =>
       /\ Len(ptoks) <= Len(TokensOf(pline))
       /\ ppc = "tok_done" =>
            (pres = CmdErr("EndOfLine") /\ ptoks = TokensOf(pline))
  /\ (ppc = "done" /\ pin.kind = "Storage" /\ ShortSet(pin.command_line)) =>
       pres = CmdErr("EndOfLine")

\* the cursor position at which the k-th token of a well-formed line starts
RECURSIVE TokenStart(_, _)
TokenStart(l, k) ==
  IF k = 1 THEN 0 ELSE TokenStart(l, k - 1) + Len(Split(l)[k - 1]) + 1

\* C22: on a line of non-empty tokens separated by single SPACEs, the k-th
\* Parse::next call returns the k-th token, for every k up to the number of
\* tokens: after a token that is not the last the cursor is just past the
\* token's trailing SPACE, and the last token runs to the end of the line.
C22_NextReturnsTokensInOrder ==
  (ppc = "tok" /\ pline # <<>> /\ WellFormedLine(pline)) =>
    LET t == Split(pline)
    IN  /\ \A k \in 1..Len(ptoks) : k <= Len(t) => ptoks[k] = t[k]
        /\ Len(ptoks) < Len(t) => ppos = TokenStart(pline, Len(ptoks) + 1)
        /\ Len(ptoks) >= Len(t) =>
             ptoks[Len(t)] = SubSeq(pline, TokenStart(pline, Len(t)) + 1, Len(pline))

\* C22 witness: the three tokens of "get k j" have been returned.
C22_Witness ==
  /\ ppc = "tok"
  /\ pline = LineGetTwo
  /\ ptoks = <<<<"g", "e", "t">>, <<"k">>, <<"j">>>>

\* ------------------------------------------------------------------ claims: locking
\* task t is inside a Cache::set that found its key in the index, holds the
\* index lock and has not stored the replacement record yet
Updating(t) == pc[t] \in {"set_getcas", "set_put"}

\* C23: a Cache::set of an existing key does not wait for the index lock
\* while another Cache::set is updating a different existing key: it can
\* take the lock at once, so that both hold it at the same time.
C23_UpdatesOfDifferentKeysDoNotWait ==
  \A t, u \in Tasks :
    ( /\ t # u
      /\ pc[t] = "set_lock"
      /\ loc[t].key \in DOMAIN index
      /\ Updating(u)
      /\ loc[u].key # loc[t].key ) => ENABLED SetLock(t)

\* C25: under fair scheduling every Cache::get and Cache::set call of a
\* finite set of concurrent calls completes: the task that made it returns
\* from it.
C25_EveryCallCompletes ==
  \A t \in Tasks : (pc[t] # "idle") ~> (pc[t] = "idle")

\* every call ends, by returning or by the panic of an unwrap: no task waits
\* for a lock for ever
CallsReturnOrPanic ==
  \A t \in Tasks : (pc[t] # "idle") ~> (pc[t] \in {"idle", "panic"})

\* ------------------------------------------------------------------ claims: cursor after check, reads
\* C24: when check succeeds from position 0, the cursor ends exactly at the
\* index just past the final terminator of the buffer's first frame (7 for
\* "GET k\r\n"), and within the buffer.
C24_CheckLeavesCursorPastFrame ==
  (fres.op = "check" /\ fres.ok) =>
    /\ pos = FirstFrameLen(buf)
    /\ pos <= Len(buf)
    /\ check(ExampleGet, 0) = [ok |-> TRUE, pos |-> 7]

\* the frames successive read_frame calls return when the bytes b are all in
\* the read buffer, as after a single read that delivers the whole stream
RECURSIVE OneRead(_)
OneRead(b) ==
  LET r == parse_frame(b)
  IN  IF r.kind = "Some" THEN <<r.frame>> \o OneRead(r.buffer) ELSE <<>>

\* the frames returned so far followed by those the bytes still buffered or
\* on their way give when they arrive in one read
FramesOfStream == frames \o OneRead(buf \o stream)

\* C26: the frames read_frame returns depend only on the bytes of the
\* stream, not on how the socket splits them into reads: no step changes
\* the sequence made of the frames returned and the frames the remaining
\* bytes give in a single read (at the start, the frames of the whole stream
\* delivered by one read), and when read_frame has reported the end of the
\* stream the frames returned are that sequence.
C26_FramesIndependentOfSplits ==
  [][ /\ FramesOfStream' = FramesOfStream
      /\ (rpc' = "done" /\ rres'.kind # "Some" /\ rres' # ReadParseErr) =>
            frames' = FramesOfStream' ]_vars

\* C26 witness: after a frame was returned, a read stopped in the middle of
\* the next frame's terminator: "\r" is buffered and "\n" still to come.
C26_Witness ==
  /\ rpc = "read"
  /\ frames # <<>>
  /\ buf # <<>>
  /\ stream # <<>>
  /\ buf[Len(buf)] = CR
  /\ stream[1] = LF
  /\ OneRead(buf) = <<>>
  /\ OneRead(buf \o stream) # <<>>

====
